---------------------------- MODULE Spec2Model ----------------------------
(***************************************************************************)
(* Model of plumber/asset/material.py (import_texture, import_material,    *)
(* resolve_value, resolve_input_socket) over the host registries           *)
(* bpy.data.images and bpy.data.materials, and of ImportMdl.execute of     *)
(* plumber/importer/mdl.py.                                                *)
(*                                                                         *)
(* Strings that the code slices or concatenates (names, extensions, keys)  *)
(* are sequences of one-character strings.  A Python dict is a sequence of *)
(* <<key, value>> pairs in iteration order.  A raised exception is the     *)
(* pair (exc, line): the Python exception class and the source line of     *)
(* material.py that raised it; exc = "None" is a normal return.            *)
(***************************************************************************)
EXTENDS Integers, Sequences, FiniteSets, TLC

VARIABLES
    images,        \* bpy.data.images: datablock name -> image record
    materials,     \* bpy.data.materials: datablock name -> material record
    packCalls,     \* datablock name -> number of image.pack() calls made on it
    newCalls,      \* per registry: requested name -> number of new() calls made for it
    last,          \* the most recent completed call and how it ended
    procs,         \* concurrent callers: position and locals of each (SpecConc)
    mdl            \* the ImportMdl operator: position and locals of execute (SpecMdl)

vars == <<images, materials, packCalls, newCalls, last, procs, mdl>>

----------------------------------------------------------------------------
(* Bounds of the model *)

\* the host's maximum datablock-name length, scaled down
MaxNameLen == 6
\* longest node list of a material descriptor
MaxNodes == 2

----------------------------------------------------------------------------
(* Strings *)

PNG == <<".", "p", "n", "g">>
TGA == <<".", "t", "g", "a">>

Rep(c, n) == [i \in 1..n |-> c]

\* the last n characters of s (Python s[-n:], n > 0)
LastChars(s, n) == SubSeq(s, Len(s) - n + 1, Len(s))

\* utils.truncate_name: cut to the host's maximum identifier length,
\* keeping the end of the name
truncate_name(name) ==
    IF Len(name) > MaxNameLen THEN LastChars(name, MaxNameLen) ELSE name

----------------------------------------------------------------------------
(* Values *)

Scalar(x)      == [tag |-> "Scalar", v |-> <<x>>]
TextureRef(p)  == [tag |-> "TextureRef", v |-> p]
\* a reference to the datablock (image, material) named n
IdValue(n)     == [tag |-> "ID", v |-> n]
NoneValue      == [tag |-> "None", v |-> <<>>]

NoExc == [exc |-> "None", line |-> 0]
Raise(e, l) == [exc |-> e, line |-> l]

\* the empty mapping
Empty == <<>>

\* m with m[k] = v
Put(m, k, v) == (k :> v) @@ m

Get0(m, k) == IF k \in DOMAIN m THEN m[k] ELSE 0

----------------------------------------------------------------------------
(* The host (Blender) as the code uses it *)

\* bpy_prop_collection.get(name): the datablock of that name, or None
CollectionGet(coll, name) ==
    IF name \in DOMAIN coll THEN IdValue(name) ELSE NoneValue

\* the name a new datablock gets: the requested one, or, when that is
\* taken, the requested one with a numeric suffix
UniqueName(coll, name) ==
    IF name \notin DOMAIN coll THEN name
    ELSE LET free == {n \in 1..9 : Append(name, ToString(n)) \notin DOMAIN coll}
             n == CHOOSE k \in free : \A j \in free : k <= j
         IN  Append(name, ToString(n))

\* input sockets, output sockets and settable attributes per node type
HostInputs(blender_id) ==
    CASE blender_id = "ShaderNodeBsdfPrincipled" ->
            {"Base Color", "Roughness", "Specular IOR Level", "Emission Color"}
      [] blender_id = "ShaderNodeTexImage" -> {"Vector"}
      [] blender_id = "ShaderNodeOutputMaterial" -> {"Surface"}
      [] OTHER -> {}

HostOutputs(blender_id) ==
    CASE blender_id = "ShaderNodeBsdfPrincipled" -> {"BSDF"}
      [] blender_id = "ShaderNodeTexImage" -> {"Color"}
      [] OTHER -> {}

HostAttrs(blender_id) ==
    CASE blender_id = "ShaderNodeTexImage" -> {"image"}
      [] blender_id = "Material" -> {"blend_method"}
      [] OTHER -> {}

\* bpy.data.images.new(name, width, height, alpha=True)
NewImage(width, height) ==
    [width |-> width, height |-> height, alpha |-> TRUE,
     file_format |-> "TARGA", source |-> "GENERATED", packed |-> <<>>,
     alpha_mode |-> "STRAIGHT", colorspace |-> "sRGB"]

\* nt.nodes.new(type)
NewNode(blender_id) ==
    [type |-> blender_id, location |-> <<0, 0>>, attrs |-> Empty, defaults |-> Empty]

\* nt.links.new: an input socket holds one link, a new link replaces it
LinksNew(links, from_node, from_socket, to_node, to_socket) ==
    LET kept == SelectSeq(links,
                    LAMBDA l : ~(l.to_node = to_node /\ l.to_socket = to_socket))
    IN  Append(kept, [from_node |-> from_node, from_socket |-> from_socket,
                      to_node |-> to_node, to_socket |-> to_socket])

----------------------------------------------------------------------------
(* material.py: tables and resolvers *)

FORMAT_MAP(ext) ==
    CASE ext = TGA -> "TARGA_RAW"
      [] ext = PNG -> "PNG"

NODE_INPUT_SOCKET_MAP_KEYS == {"Specular", "Emission"}

NODE_INPUT_SOCKET_MAP(socket) ==
    CASE socket = "Specular" -> "Specular IOR Level"
      [] socket = "Emission" -> "Emission Color"

\* a resolver that hands every name back as it came
resolve_input_socket_verbatim(socket) == socket

\* lines 98-99: NODE_INPUT_SOCKET_MAP.get(socket, socket)
resolve_input_socket(socket) ==
    IF socket \in NODE_INPUT_SOCKET_MAP_KEYS
    THEN NODE_INPUT_SOCKET_MAP(socket) ELSE socket

\* a resolver that looks the path up without the extension
resolve_value_bare_path(imgs, value, texture_ext) ==
    IF value.tag = "TextureRef"
    THEN CollectionGet(imgs, truncate_name(value.v))
    ELSE value

\* lines 90-95: a TextureRef becomes the registered image of its key (None
\* when there is none), any other value is returned as it is
resolve_value(imgs, value, texture_ext) ==
    IF value.tag = "TextureRef"
    THEN LET texture_name == truncate_name(value.v \o texture_ext)
         IN  CollectionGet(imgs, texture_name)
    ELSE value

----------------------------------------------------------------------------
(* Descriptors handed to the callbacks *)

\* names at the truncation boundary: NameA with an extension is exactly
\* MaxNameLen long, NameBA with an extension is one longer and truncates to
\* the key of NameA; NameC derives another key
NameA  == Rep("a", MaxNameLen - Len(PNG))
NameBA == <<"b">> \o NameA
NameC  == Rep("c", MaxNameLen - Len(PNG))
NameM  == Rep("m", MaxNameLen)
NameBM == <<"b">> \o NameM

Texture(n, e, w, h, b) ==
    [name |-> n, format_ext |-> e, width |-> w, height |-> h, bytes |-> b]

\* two names of one key, each with two sizes and byte buffers, and a
\* texture of another key
Textures ==
    {Texture(n, PNG, 1, 1, <<10>>) : n \in {NameA, NameBA, NameC}}
    \cup {Texture(n, PNG, 2, 1, <<20, 21>>) : n \in {NameA, NameBA}}

----------------------------------------------------------------------------
(* import_texture, lines 21-34 *)

\* lines 30-34 on the image just created
FillImage(image_data, texture) ==
    [image_data EXCEPT
        !.file_format = FORMAT_MAP(texture.format_ext),
        !.source = "FILE",
        !.packed = texture.bytes,
        !.alpha_mode = "CHANNEL_PACKED"]

\* one more call counted for name
Count(calls, name) == Put(calls, name, Get0(calls, name) + 1)

\* lines 27-34: the branch that creates the image
CreateImage(imgs, texture, texture_name) ==
    LET name == UniqueName(imgs, texture_name)
        image_data == FillImage(NewImage(texture.width, texture.height), texture)
    IN  [name |-> name, images |-> Put(imgs, name, image_data)]

TextureKey(texture) == truncate_name(texture.name \o texture.format_ext)

\* import_texture without the lookup of line 25
import_texture_no_lookup(imgs, packs, news, texture) ==
    LET texture_name == TextureKey(texture)
        made == CreateImage(imgs, texture, texture_name)
    IN  [images |-> made.images,
         packCalls |-> Count(packs, made.name),
         newCalls |-> [news EXCEPT !.images = Count(@, texture_name)],
         hit |-> texture_name \in DOMAIN imgs, result |-> NoExc]

\* import_texture that uploads the descriptor again when the image exists
import_texture_refresh(imgs, packs, news, texture) ==
    LET texture_name == TextureKey(texture)
    IN  IF texture_name \in DOMAIN imgs
        THEN [images |-> [imgs EXCEPT ![texture_name] = FillImage(@, texture)],
              packCalls |-> Count(packs, texture_name), newCalls |-> news,
              hit |-> TRUE, result |-> NoExc]
        ELSE import_texture_no_lookup(imgs, packs, news, texture)

\* the whole call: registry and counters after it, and whether the lookup hit
import_texture(imgs, packs, news, texture) ==
    LET texture_name == TextureKey(texture)
        image_data == CollectionGet(imgs, texture_name)
    IN  IF image_data = NoneValue
        THEN LET made == CreateImage(imgs, texture, texture_name)
             IN  [images |-> made.images,
                  packCalls |-> Count(packs, made.name),
                  newCalls |-> [news EXCEPT !.images = Count(@, texture_name)],
                  hit |-> FALSE, result |-> NoExc]
        ELSE [images |-> imgs, packCalls |-> packs, newCalls |-> news,
              hit |-> TRUE, result |-> NoExc]

----------------------------------------------------------------------------
(* Material descriptors *)

PRINCIPLED == "ShaderNodeBsdfPrincipled"
TEX_IMAGE  == "ShaderNodeTexImage"
OUTPUT     == "ShaderNodeOutputMaterial"

Link(i, s) == [node_index |-> i, socket |-> s]

\* an image texture node reading texture NameA
NodeTex ==
    [blender_id |-> TEX_IMAGE, position |-> <<-300, 0>>,
     properties |-> << <<"image", TextureRef(NameA)>> >>,
     socket_values |-> <<>>, socket_links |-> <<>>]

\* a shader node with two socket defaults, one of them under a renamed socket
NodeShader ==
    [blender_id |-> PRINCIPLED, position |-> <<0, 0>>,
     properties |-> <<>>,
     socket_values |-> << <<"Specular", Scalar("0.5")>>, <<"Roughness", Scalar("0.8")>> >>,
     socket_links |-> <<>>]

\* a shader node fed by the "Color" output of node i, one link under a
\* renamed socket
NodeLinked(i) ==
    [blender_id |-> PRINCIPLED, position |-> <<0, 0>>,
     properties |-> <<>>,
     socket_values |-> <<>>,
     socket_links |-> << <<"Base Color", Link(i, "Color")>>,
                         <<"Emission", Link(i, "Color")>> >>]

\* an image texture node given a default for a socket it does not have
NodeMisfit ==
    [blender_id |-> TEX_IMAGE, position |-> <<-300, 0>>,
     properties |-> <<>>,
     socket_values |-> << <<"Roughness", Scalar("0.8")>> >>,
     socket_links |-> <<>>]

\* link indices run over 0..MaxNodes: every position of a list and one past it
NodeDescs == {NodeTex, NodeShader} \cup {NodeLinked(i) : i \in 0..MaxNodes}

\* the positions of a list whose node carries links
Linking(l) == {i \in 1..Len(l) : l[i].socket_links # <<>>}

\* the lists of at most MaxNodes nodes in which at most one node carries links
NodeLists ==
    {l \in UNION {[1..n -> NodeDescs] : n \in 0..MaxNodes} : Cardinality(Linking(l)) <= 1}

PropsOk  == << <<"blend_method", Scalar("OPAQUE")>> >>
PropsBad == << <<"blend_method", Scalar("OPAQUE")>>, <<"bogus", Scalar("1")>> >>

SpacesA  == << <<NameA, "Non-Color">> >>
SpacesCA == << <<NameC, "Non-Color">>, <<NameA, "Non-Color">> >>

Material(n, p, l, c) ==
    [name |-> n, texture_ext |-> PNG, properties |-> p, nodes |-> l,
     texture_color_spaces |-> c]

\* every node list under one name, and a valid two-node graph varied in its
\* name, its property map and its colorspace map, one at a time
Chain == <<NodeTex, NodeLinked(0)>>

Materials ==
    {Material(NameM, PropsOk, l, <<>>) : l \in NodeLists \cup {<<NodeMisfit>>}}
    \cup {Material(NameBM, PropsOk, l, <<>>) : l \in {Chain, <<NodeShader>>}}
    \cup {Material(NameM, PropsBad, Chain, <<>>)}
    \cup {Material(NameM, PropsOk, Chain, c) : c \in {SpacesA, SpacesCA}}

----------------------------------------------------------------------------
(* import_material, lines 37-87.  A build state st holds the material      *)
(* record being built (mat), the image registry (imgs), built_nodes as     *)
(* positions in mat.nodes (built) and the exception raised so far.         *)

\* bpy.data.materials.new(name)
NewMaterial == [path_id |-> <<>>, use_nodes |-> FALSE, attrs |-> Empty,
                nodes |-> <<>>, links |-> <<>>]

\* an exception that is swallowed: the build goes on
RunningAlways(st) == TRUE

\* no exception so far: the statements after a raise do not run
Running(st) == st.result = NoExc

\* a bound check that is off by one
InRangeButLast(list, index) == index < Len(list) - 1

\* Python list indexing with a non-negative index: in range or IndexError
InRange(list, index) == index < Len(list)

\* lines 55-56: material-level properties
RECURSIVE SetMaterialProps(_, _, _, _)
SetMaterialProps(st, props, i, texture_ext) ==
    IF i > Len(props) \/ ~Running(st) THEN st
    ELSE LET property == props[i][1]
             value == resolve_value(st.imgs, props[i][2], texture_ext)
         IN  IF property \notin HostAttrs("Material")
             THEN [st EXCEPT !.result = Raise("AttributeError", 56)]
             ELSE SetMaterialProps([st EXCEPT !.mat.attrs = Put(@, property, value)],
                                   props, i + 1, texture_ext)

\* lines 64-65: properties of the node at position cur of mat.nodes
RECURSIVE SetNodeProps(_, _, _, _, _)
SetNodeProps(st, cur, props, i, texture_ext) ==
    IF i > Len(props) \/ ~Running(st) THEN st
    ELSE LET property == props[i][1]
             value == resolve_value(st.imgs, props[i][2], texture_ext)
         IN  IF property \notin HostAttrs(st.mat.nodes[cur].type)
             THEN [st EXCEPT !.result = Raise("AttributeError", 65)]
             ELSE SetNodeProps([st EXCEPT !.mat.nodes[cur].attrs = Put(@, property, value)],
                               cur, props, i + 1, texture_ext)

\* lines 67-69: socket defaults
RECURSIVE SetSocketValues(_, _, _, _, _)
SetSocketValues(st, cur, values, i, texture_ext) ==
    IF i > Len(values) \/ ~Running(st) THEN st
    ELSE LET socket == resolve_input_socket(values[i][1])
             value == resolve_value(st.imgs, values[i][2], texture_ext)
         IN  IF socket \notin HostInputs(st.mat.nodes[cur].type)
             THEN [st EXCEPT !.result = Raise("KeyError", 69)]
             ELSE SetSocketValues([st EXCEPT !.mat.nodes[cur].defaults = Put(@, socket, value)],
                                  cur, values, i + 1, texture_ext)

\* lines 71-76 with a link to a node not built yet dropped without an error
RECURSIVE SetSocketLinksLenient(_, _, _, _)
SetSocketLinksLenient(st, cur, links, i) ==
    IF i > Len(links) \/ ~Running(st) THEN st
    ELSE LET link == links[i][2]
         IN  IF ~InRange(st.built, link.node_index)
             THEN SetSocketLinksLenient(st, cur, links, i + 1)
             ELSE SetSocketLinksLenient(
                      [st EXCEPT !.mat.links =
                           LinksNew(@, st.built[link.node_index + 1], link.socket, cur,
                                    resolve_input_socket(links[i][1]))],
                      cur, links, i + 1)

\* lines 71-76 reading an index as a position in the descriptor's list
\* instead of one in built_nodes, whether that node is built yet or not
RECURSIVE SetSocketLinksByPosition(_, _, _, _)
SetSocketLinksByPosition(st, cur, links, i) ==
    IF i > Len(links) \/ ~Running(st) THEN st
    ELSE LET link == links[i][2]
             socket == resolve_input_socket(links[i][1])
         IN  IF socket \notin HostInputs(st.mat.nodes[cur].type)
             THEN [st EXCEPT !.result = Raise("KeyError", 76)]
             ELSE SetSocketLinksByPosition(
                      [st EXCEPT !.mat.links =
                           LinksNew(@, link.node_index + 2, link.socket, cur, socket)],
                      cur, links, i + 1)

\* lines 71-76: links from nodes built earlier
RECURSIVE SetSocketLinks(_, _, _, _)
SetSocketLinks(st, cur, links, i) ==
    IF i > Len(links) \/ ~Running(st) THEN st
    ELSE LET link == links[i][2]
         IN  IF ~InRange(st.built, link.node_index)
             THEN [st EXCEPT !.result = Raise("IndexError", 72)]
             ELSE LET target_node == st.built[link.node_index + 1]
                      socket == resolve_input_socket(links[i][1])
                  IN  IF link.socket \notin HostOutputs(st.mat.nodes[target_node].type)
                      THEN [st EXCEPT !.result = Raise("KeyError", 73)]
                      ELSE IF socket \notin HostInputs(st.mat.nodes[cur].type)
                      THEN [st EXCEPT !.result = Raise("KeyError", 76)]
                      ELSE SetSocketLinks(
                               [st EXCEPT !.mat.links =
                                    LinksNew(@, target_node, link.socket, cur, socket)],
                               cur, links, i + 1)

\* lines 61-78: one iteration of the node loop
BuildNode(st, node, texture_ext) ==
    LET cur == Len(st.mat.nodes) + 1
        s1 == [st EXCEPT !.mat.nodes =
                   Append(@, [NewNode(node.blender_id) EXCEPT !.location = node.position])]
        s2 == SetNodeProps(s1, cur, node.properties, 1, texture_ext)
        s3 == SetSocketValues(s2, cur, node.socket_values, 1, texture_ext)
        s4 == SetSocketLinks(s3, cur, node.socket_links, 1)
    IN  IF Running(s4) THEN [s4 EXCEPT !.built = Append(@, cur)] ELSE s4

\* lines 58-78: the node loop
RECURSIVE BuildNodes(_, _, _, _)
BuildNodes(st, nodes, i, texture_ext) ==
    IF i > Len(nodes) \/ ~Running(st) THEN st
    ELSE BuildNodes(BuildNode(st, nodes[i], texture_ext), nodes, i + 1, texture_ext)

\* lines 80-82 returning quietly when nothing was built
WireOutputLenient(st) ==
    IF ~Running(st) \/ Len(st.built) = 0 THEN st
    ELSE LET shader_node == st.built[Len(st.built)]
         IN  IF "BSDF" \notin HostOutputs(st.mat.nodes[shader_node].type)
             THEN [st EXCEPT !.result = Raise("KeyError", 82)]
             ELSE [st EXCEPT !.mat.links = LinksNew(@, shader_node, "BSDF", 1, "Surface")]

\* lines 80-82 taking the first built node for the shader
WireOutputFirst(st) ==
    IF ~Running(st) THEN st
    ELSE IF Len(st.built) = 0
    THEN [st EXCEPT !.result = Raise("IndexError", 80)]
    ELSE LET shader_node == st.built[1]
         IN  IF "BSDF" \notin HostOutputs(st.mat.nodes[shader_node].type)
             THEN [st EXCEPT !.result = Raise("KeyError", 82)]
             ELSE [st EXCEPT !.mat.links = LinksNew(@, shader_node, "BSDF", 1, "Surface")]

\* lines 80-82: the last built node feeds the output node (position 1)
WireOutput(st) ==
    IF ~Running(st) THEN st
    ELSE IF Len(st.built) = 0
    THEN [st EXCEPT !.result = Raise("IndexError", 80)]
    ELSE LET shader_node == st.built[Len(st.built)]
         IN  IF "BSDF" \notin HostOutputs(st.mat.nodes[shader_node].type)
             THEN [st EXCEPT !.result = Raise("KeyError", 82)]
             ELSE [st EXCEPT !.mat.links = LinksNew(@, shader_node, "BSDF", 1, "Surface")]

\* lines 84-87 passing over the textures that are not registered
RECURSIVE TagColorSpacesLenient(_, _, _, _)
TagColorSpacesLenient(st, spaces, i, texture_ext) ==
    IF i > Len(spaces) \/ ~Running(st) THEN st
    ELSE LET image_name == truncate_name(spaces[i][1] \o texture_ext)
         IN  IF image_name \notin DOMAIN st.imgs
             THEN TagColorSpacesLenient(st, spaces, i + 1, texture_ext)
             ELSE TagColorSpacesLenient(
                      [st EXCEPT !.imgs[image_name].colorspace = spaces[i][2]],
                      spaces, i + 1, texture_ext)

\* lines 84-87: colorspace tagging
RECURSIVE TagColorSpaces(_, _, _, _)
TagColorSpaces(st, spaces, i, texture_ext) ==
    IF i > Len(spaces) \/ ~Running(st) THEN st
    ELSE LET image_name == truncate_name(spaces[i][1] \o texture_ext)
         IN  IF image_name \notin DOMAIN st.imgs
             THEN [st EXCEPT !.result = Raise("KeyError", 86)]
             ELSE TagColorSpaces([st EXCEPT !.imgs[image_name].colorspace = spaces[i][2]],
                                 spaces, i + 1, texture_ext)

\* lines 45-50 without the clear of line 47
ResetTreeAdditive(mat) ==
    [mat EXCEPT !.use_nodes = TRUE,
                !.nodes = Append(@, [NewNode(OUTPUT) EXCEPT !.location = <<300, 0>>])]

\* lines 45-50 with a clear that removes the nodes and leaves their links
ResetTreeKeepLinks(mat) ==
    [mat EXCEPT !.use_nodes = TRUE,
                !.nodes = << [NewNode(OUTPUT) EXCEPT !.location = <<300, 0>>] >>]

\* lines 45-50: use_nodes, the cleared tree and the output node
ResetTree(mat) ==
    [mat EXCEPT !.use_nodes = TRUE,
                !.nodes = << [NewNode(OUTPUT) EXCEPT !.location = <<300, 0>>] >>,
                !.links = <<>>]

\* lines 45-87 on the container material_data
BuildMaterial(imgs, material_data, material) ==
    LET s0 == [mat |-> ResetTree(material_data), imgs |-> imgs, built |-> <<>>,
               result |-> NoExc]
        s1 == SetMaterialProps(s0, material.properties, 1, material.texture_ext)
        s2 == BuildNodes(s1, material.nodes, 1, material.texture_ext)
        s3 == WireOutput(s2)
    IN  TagColorSpaces(s3, material.texture_color_spaces, 1, material.texture_ext)

MaterialKey(material) == truncate_name(material.name)

\* lines 40-43 with the tag of line 43 written on every call
LookupOrCreateRetag(mats, material, material_name) ==
    IF material_name \in DOMAIN mats
    THEN [name |-> material_name,
          mat |-> [mats[material_name] EXCEPT !.path_id = material.name], hit |-> TRUE]
    ELSE [name |-> UniqueName(mats, material_name),
          mat |-> [NewMaterial EXCEPT !.path_id = material.name], hit |-> FALSE]

\* lines 40-43: the container of that name, created and tagged when missing
LookupOrCreate(mats, material, material_name) ==
    IF material_name \in DOMAIN mats
    THEN [name |-> material_name, mat |-> mats[material_name], hit |-> TRUE]
    ELSE [name |-> UniqueName(mats, material_name),
          mat |-> [NewMaterial EXCEPT !.path_id = material.name], hit |-> FALSE]

\* the whole call
import_material(imgs, mats, news, material) ==
    LET material_name == MaterialKey(material)
        got == LookupOrCreate(mats, material, material_name)
        st == BuildMaterial(imgs, got.mat, material)
    IN  [images |-> st.imgs,
         materials |-> Put(mats, got.name, st.mat),
         newCalls |-> IF got.hit THEN news
                      ELSE [news EXCEPT !.materials = Count(@, material_name)],
         built |-> st.built, hit |-> got.hit, result |-> st.result]

----------------------------------------------------------------------------
(* The callbacks run one at a time *)

Procs == {1, 2}

Call(op, name, hit, again, result, built, arg) ==
    [call |-> [op |-> op, name |-> name, hit |-> hit, again |-> again,
               result |-> result, built |-> built, before |-> "none"],
     arg |-> arg]

\* how the container of a key stood before a call: not there, left without
\* the output wiring by a build that raised, or wired
Before(mats, name) ==
    IF name \notin DOMAIN mats THEN "none"
    ELSE IF \E i \in 1..Len(mats[name].links) : mats[name].links[i].to_node = 1
    THEN "wired" ELSE "partial"

NoCall == Call("none", <<>>, FALSE, FALSE, NoExc, <<>>, <<>>)

Idle == [pc |-> "idle", op |-> "none", arg |-> <<>>, name |-> <<>>,
         data |-> NoneValue, hit |-> FALSE, result |-> NoExc, built |-> <<>>,
         calls |-> 0]

\* the operator before its first execute
NoExecute ==
    [pc |-> "idle", props |-> <<>>, fs_exc |-> "None", construct_exc |-> "None",
     import_exc |-> "None", constructed |-> 0, import_calls |-> <<>>,
     reports |-> <<>>, returned |-> "none", raised |-> "None", executes |-> 0]

\* the same call as the one before it
Again(op, arg) == last.call.op = op /\ last.arg = arg

Init ==
    /\ images = Empty
    /\ materials = Empty
    /\ packCalls = Empty
    /\ newCalls = [images |-> Empty, materials |-> Empty]
    /\ last = NoCall
    /\ procs = [p \in Procs |-> Idle]
    /\ mdl = NoExecute

ImportTexture(texture) ==
    \E r \in {import_texture(images, packCalls, newCalls, texture)} :
        /\ images' = r.images
        /\ packCalls' = r.packCalls
        /\ newCalls' = r.newCalls
        /\ last' = Call("import_texture", TextureKey(texture), r.hit,
                         Again("import_texture", texture), r.result, <<>>, texture)
        /\ UNCHANGED <<materials, procs, mdl>>

ImportMaterial(material) ==
    \E r \in {import_material(images, materials, newCalls, material)} :
        /\ images' = r.images
        /\ materials' = r.materials
        /\ newCalls' = r.newCalls
        /\ last' = [Call("import_material", MaterialKey(material), r.hit,
                          Again("import_material", material), r.result, r.built, material)
                        EXCEPT !.call.before = Before(materials, MaterialKey(material))]
        /\ UNCHANGED <<packCalls, procs, mdl>>

Next ==
    \/ \E texture \in Textures : ImportTexture(texture)
    \/ \E material \in Materials : ImportMaterial(material)

Spec == Init /\ [][Next]_vars

----------------------------------------------------------------------------
(* import_material alone, over descriptors of two keys: NameM and NameBM   *)
(* truncate to one key, NameK is its own key.  Each name comes with a      *)
(* graph that builds, a smaller one, and an empty node list, which raises. *)

NameK == Rep("k", MaxNameLen)

KeyMaterials ==
    {Material(n, PropsOk, l, <<>>) :
        n \in {NameM, NameBM, NameK}, l \in {Chain, <<NodeShader>>, <<>>}}

NextKeys == \E material \in KeyMaterials : ImportMaterial(material)

SpecKeys == Init /\ [][NextKeys]_vars

----------------------------------------------------------------------------
(* Two callers whose statements interleave.  Each caller runs the          *)
(* statements of import_texture or import_material in order; the lookup   *)
(* (lines 25, 40), the creation (lines 29, 42-43) and the rest of the     *)
(* call are separate steps.                                                *)

\* calls per caller
MaxCalls == 1

ConcMaterials == {Material(NameM, PropsOk, Chain, <<>>),
                  Material(NameBM, PropsOk, <<NodeShader>>, <<>>)}

At(p, op, pc) == procs[p].op = op /\ procs[p].pc = pc

Goto(p, pc) == procs' = [procs EXCEPT ![p].pc = pc]

Begin(p, op, arg, name) ==
    /\ procs[p].pc = "idle"
    /\ procs[p].calls < MaxCalls
    /\ procs' = [procs EXCEPT ![p] = [Idle EXCEPT !.pc = "lookup", !.op = op, !.arg = arg,
                                                   !.name = name, !.calls = procs[p].calls]]
    /\ UNCHANGED <<images, materials, packCalls, newCalls, last, mdl>>

BeginTexture(p) == \E texture \in Textures :
    Begin(p, "import_texture", texture, TextureKey(texture))

BeginMaterial(p) == \E material \in ConcMaterials :
    Begin(p, "import_material", material, MaterialKey(material))

\* line 25
TextureLookup(p) ==
    /\ At(p, "import_texture", "lookup")
    /\ \E image_data \in {CollectionGet(images, procs[p].name)} :
          procs' = [procs EXCEPT ![p].data = image_data,
                                 ![p].hit = (image_data # NoneValue),
                                 ![p].pc = IF image_data = NoneValue THEN "new" ELSE "return"]
    /\ UNCHANGED <<images, materials, packCalls, newCalls, last, mdl>>

\* lines 27-29
TextureNew(p) ==
    /\ At(p, "import_texture", "new")
    /\ \E name \in {UniqueName(images, procs[p].name)} :
          /\ images' = Put(images, name, NewImage(procs[p].arg.width, procs[p].arg.height))
          /\ procs' = [procs EXCEPT ![p].data = IdValue(name), ![p].pc = "fill"]
    /\ newCalls' = [newCalls EXCEPT !.images = Count(@, procs[p].name)]
    /\ UNCHANGED <<materials, packCalls, last, mdl>>

\* lines 30-34
TextureFill(p) ==
    /\ At(p, "import_texture", "fill")
    /\ images' = [images EXCEPT ![procs[p].data.v] = FillImage(@, procs[p].arg)]
    /\ packCalls' = Count(packCalls, procs[p].data.v)
    /\ Goto(p, "return")
    /\ UNCHANGED <<materials, newCalls, last, mdl>>

\* line 40
MaterialLookup(p) ==
    /\ At(p, "import_material", "lookup")
    /\ \E material_data \in {CollectionGet(materials, procs[p].name)} :
          procs' = [procs EXCEPT ![p].data = material_data,
                                 ![p].hit = (material_data # NoneValue),
                                 ![p].pc = IF material_data = NoneValue THEN "new" ELSE "build"]
    /\ UNCHANGED <<images, materials, packCalls, newCalls, last, mdl>>

\* lines 42-43
MaterialNew(p) ==
    /\ At(p, "import_material", "new")
    /\ \E name \in {UniqueName(materials, procs[p].name)} :
          /\ materials' = Put(materials, name, [NewMaterial EXCEPT !.path_id = procs[p].arg.name])
          /\ procs' = [procs EXCEPT ![p].data = IdValue(name), ![p].pc = "build"]
    /\ newCalls' = [newCalls EXCEPT !.materials = Count(@, procs[p].name)]
    /\ UNCHANGED <<images, packCalls, last, mdl>>

\* lines 45-87
MaterialBuild(p) ==
    /\ At(p, "import_material", "build")
    /\ \E st \in {BuildMaterial(images, materials[procs[p].data.v], procs[p].arg)} :
          /\ images' = st.imgs
          /\ materials' = [materials EXCEPT ![procs[p].data.v] = st.mat]
          /\ procs' = [procs EXCEPT ![p].result = st.result, ![p].built = st.built,
                                     ![p].pc = "return"]
    /\ UNCHANGED <<packCalls, newCalls, last, mdl>>

Return(p) ==
    /\ procs[p].pc = "return"
    /\ procs' = [procs EXCEPT ![p].pc = "idle", ![p].calls = @ + 1]
    /\ last' = Call(procs[p].op, procs[p].name, procs[p].hit,
                     Again(procs[p].op, procs[p].arg), procs[p].result, procs[p].built,
                     procs[p].arg)
    /\ UNCHANGED <<images, materials, packCalls, newCalls, mdl>>

NextConc ==
    \E p \in Procs :
        \/ BeginTexture(p)
        \/ BeginMaterial(p)
        \/ TextureLookup(p)
        \/ TextureNew(p)
        \/ TextureFill(p)
        \/ MaterialLookup(p)
        \/ MaterialNew(p)
        \/ MaterialBuild(p)
        \/ Return(p)

SpecConc == Init /\ [][NextConc]_vars

----------------------------------------------------------------------------
(* ImportMdl.execute, mdl.py lines 29-58.  The file system lookup, the     *)
(* Importer constructor and Importer.import_mdl are calls out of the       *)
(* module: each returns or raises, an OSError, a subclass of it, or an     *)
(* exception of another class.  What import_mdl does to the registries it  *)
(* does through the callbacks of material.py, which Spec models; here the  *)
(* registries stay as they are.                                            *)

\* executes of the operator in one behaviour
MaxExecutes == 2

Exceptions == {"OSError", "FileNotFoundError", "RuntimeError"}
Outcomes == {"None"} \cup Exceptions

\* isinstance(err, OSError): the class itself and its subclasses
IsOSError(err) == err \in {"OSError", "FileNotFoundError"}

\* the operator's properties that execute hands to import_mdl
MdlProps ==
    [filepath : {"a.mdl"}, from_game_fs : BOOLEAN,
     import_materials : BOOLEAN, import_animations : BOOLEAN]

\* self.report({level}, f"{message}: {err}")
Report(m, level, message, err) ==
    [m EXCEPT !.reports = Append(@, [level |-> level, message |-> message, err |-> err])]

\* a handler that catches every exception
ExceptAny(m, err, message) ==
    [Report(m, "ERROR", message, err) EXCEPT !.returned = "CANCELLED", !.pc = "done"]

\* lines 44-46 and 54-56: except OSError reports and returns {"CANCELLED"};
\* an exception of another class leaves execute unhandled
ExceptOSError(m, err, message) ==
    IF IsOSError(err)
    THEN [Report(m, "ERROR", message, err) EXCEPT !.returned = "CANCELLED", !.pc = "done"]
    ELSE [m EXCEPT !.raised = err, !.pc = "done"]

\* the operator is run: line 29
Execute(props) ==
    /\ mdl.pc = "idle"
    /\ mdl.executes < MaxExecutes
    /\ mdl' = [NoExecute EXCEPT !.pc = "get_game_fs", !.props = props,
                                !.executes = mdl.executes]
    /\ UNCHANGED <<images, materials, packCalls, newCalls, last, procs>>

\* line 30, outside of any try
GetGameFs(outcome) ==
    /\ mdl.pc = "get_game_fs"
    /\ mdl' = IF outcome = "None" THEN [mdl EXCEPT !.pc = "construct"]
              ELSE [mdl EXCEPT !.fs_exc = outcome, !.raised = outcome, !.pc = "done"]
    /\ UNCHANGED <<images, materials, packCalls, newCalls, last, procs>>

\* lines 32-46
NewImporter(outcome) ==
    /\ mdl.pc = "construct"
    /\ mdl' = IF outcome = "None"
              THEN [mdl EXCEPT !.constructed = @ + 1, !.pc = "import_mdl"]
              ELSE ExceptOSError([mdl EXCEPT !.constructed = @ + 1,
                                             !.construct_exc = outcome],
                                 outcome, "could not open file system")
    /\ UNCHANGED <<images, materials, packCalls, newCalls, last, procs>>

\* lines 47-58
CallImportMdl(outcome) ==
    /\ mdl.pc = "import_mdl"
    /\ \E called \in {[mdl EXCEPT !.import_calls = Append(@, mdl.props)]} :
          mdl' = IF outcome = "None"
                 THEN [called EXCEPT !.returned = "FINISHED", !.pc = "done"]
                 ELSE ExceptOSError([called EXCEPT !.import_exc = outcome],
                                    outcome, "could not import mdl")
    /\ UNCHANGED <<images, materials, packCalls, newCalls, last, procs>>

\* execute is left, by a return or by the exception
ExecuteReturn ==
    /\ mdl.pc = "done"
    /\ mdl' = [mdl EXCEPT !.pc = "idle", !.executes = @ + 1]
    /\ UNCHANGED <<images, materials, packCalls, newCalls, last, procs>>

NextMdl ==
    \/ \E props \in MdlProps : Execute(props)
    \/ \E outcome \in Outcomes : GetGameFs(outcome)
    \/ \E outcome \in Outcomes : NewImporter(outcome)
    \/ \E outcome \in Outcomes : CallImportMdl(outcome)
    \/ ExecuteReturn

SpecMdl == Init /\ [][NextMdl]_vars

----------------------------------------------------------------------------
(* What the claims speak of *)

LastIs(op) == last.call.op = op
Failed == last.call.result # NoExc
\* the container the last import_material worked on
Built == materials[last.call.name]

\* the spec's error kinds, as the exceptions of the code: a bad position in
\* built_nodes (lines 72, 80) is an IndexError, a missing image in the
\* registry lookup of line 86 a KeyError
GraphConsistencyError(r) == r.exc = "IndexError" /\ r.line \in {72, 80}
MissingReferenceError(r) == r.exc = "KeyError" /\ r.line = 86

\* the datablocks made for a requested name: the name itself and its
\* suffixed duplicates
NamesFor(coll, name) ==
    {n \in DOMAIN coll : n = name \/ (Len(n) = Len(name) + 1 /\ SubSeq(n, 1, Len(name)) = name)}

\* every link of every node names a node before it
WellOrdered(nodes) ==
    \A n \in 1..Len(nodes) : \A j \in 1..Len(nodes[n].socket_links) :
        nodes[n].socket_links[j][2].node_index < n - 1

\* the host has every attribute and socket the descriptor names
NodeAccepted(nodes, n) ==
    LET node == nodes[n]
    IN  /\ \A j \in 1..Len(node.properties) :
              node.properties[j][1] \in HostAttrs(node.blender_id)
        /\ \A j \in 1..Len(node.socket_values) :
              resolve_input_socket(node.socket_values[j][1]) \in HostInputs(node.blender_id)
        /\ \A j \in 1..Len(node.socket_links) :
              LET link == node.socket_links[j][2]
              IN  /\ resolve_input_socket(node.socket_links[j][1]) \in HostInputs(node.blender_id)
                  /\ link.node_index < n - 1 =>
                        link.socket \in HostOutputs(nodes[link.node_index + 1].blender_id)

HostAccepts(material) ==
    /\ \A j \in 1..Len(material.properties) :
          material.properties[j][1] \in HostAttrs("Material")
    /\ \A n \in 1..Len(material.nodes) : NodeAccepted(material.nodes, n)

SurfaceLink(shader_node) ==
    [from_node |-> shader_node, from_socket |-> "BSDF", to_node |-> 1, to_socket |-> "Surface"]

Links(mat) == {mat.links[i] : i \in 1..Len(mat.links)}

----------------------------------------------------------------------------
(* C1: a call of import_texture leaves exactly one image for the key its   *)
(* descriptor derives; when the key was registered before the call, that   *)
(* image is the one registered before; the image was created once and its  *)
(* bytes were packed once, however many calls derived the key.             *)
C1_OneImageOneUpload ==
    [][LastIs("import_texture")' =>
         LET key == last'.call.name
         IN  /\ NamesFor(images', key) = {key}
             /\ packCalls'[key] = 1
             /\ newCalls'.images[key] = 1
             /\ \A n \in DOMAIN packCalls' : packCalls'[n] = 1
             /\ key \in DOMAIN images => last'.call.hit /\ images'[key] = images[key]
    ]_vars

\* a second descriptor, of another name, found the image of the first
C1_Witness ==
    /\ LastIs("import_texture") /\ last.call.hit
    /\ last.arg.name = NameBA
    /\ last.call.name = NameA \o PNG
    /\ packCalls[last.call.name] = 1

(* C2: import_material run twice in a row with one descriptor leaves the   *)
(* registry after the second run as it was after the first: one container  *)
(* under the key, created once, with the same nodes and links, and the     *)
(* same outcome.                                                           *)
C2_RebuildIdempotent ==
    [][(LastIs("import_material")' /\ last'.call.again) =>
         LET key == last'.call.name
         IN  /\ materials' = materials
             /\ images' = images
             /\ NamesFor(materials', key) = {key}
             /\ newCalls'.materials[key] = 1
             /\ last'.call.result = last.call.result
             /\ last'.call.built = last.call.built
             /\ last'.call.hit
             /\ Len(materials'[key].nodes) <= 1 + Len(last'.arg.nodes)
    ]_vars

C2_Witness ==
    /\ LastIs("import_material") /\ last.call.again /\ ~Failed
    /\ last.arg.nodes = Chain
    /\ Len(Built.nodes) = 3 /\ Len(Built.links) = 3

(* C3: for a non-empty node list whose links all name an earlier position  *)
(* (and whose attributes and sockets the host has), the node loop of       *)
(* lines 58-78 and the selection of line 80 raise nothing: built_nodes     *)
(* holds one node per descriptor, in descriptor order, and the node wired  *)
(* to the output is the last of them.                                      *)
C3_TopologicalSafety ==
    (/\ LastIs("import_material")
     /\ Len(last.arg.nodes) > 0
     /\ WellOrdered(last.arg.nodes)
     /\ HostAccepts(last.arg))
    => LET n == Len(last.arg.nodes)
       IN  /\ last.call.result \in {NoExc, Raise("KeyError", 82), Raise("KeyError", 86)}
           /\ last.call.built = [i \in 1..n |-> i + 1]
           /\ Len(Built.nodes) = n + 1
           /\ \A i \in 1..n :
                 /\ Built.nodes[i + 1].type = last.arg.nodes[i].blender_id
                 /\ Built.nodes[i + 1].location = last.arg.nodes[i].position
           /\ "BSDF" \in HostOutputs(last.arg.nodes[n].blender_id)
                 => /\ last.call.result # Raise("KeyError", 82)
                    /\ {l \in Links(Built) : l.to_node = 1} = {SurfaceLink(n + 1)}

C3_Witness ==
    /\ LastIs("import_material") /\ ~Failed
    /\ last.arg.nodes = Chain
    /\ last.call.built = <<2, 3>>
    /\ SurfaceLink(3) \in Links(Built)

(* C4: a node list with a link whose index is its own position or a later  *)
(* one never builds: the call raises, nothing is wired to the output, no   *)
(* link from a node at or after the linking node exists, and when the host *)
(* has every attribute and socket named the exception is the IndexError of *)
(* line 72.                                                                *)
C4_InvalidIndexRejected ==
    (LastIs("import_material") /\ ~WellOrdered(last.arg.nodes))
    => /\ Failed
       /\ last.call.result.line \in {56, 65, 69, 72, 73, 76}
       /\ HostAccepts(last.arg) => GraphConsistencyError(last.call.result)
                                     /\ last.call.result.line = 72
       /\ \A l \in Links(Built) : l.to_node # 1 /\ l.from_node < l.to_node
       /\ Len(last.call.built) < Len(last.arg.nodes)

\* a self link and a link past the end of the list, each raised at line 72
C4_Witness ==
    /\ LastIs("import_material")
    /\ last.arg.nodes = <<NodeTex, NodeLinked(MaxNodes)>>
    /\ last.call.result = Raise("IndexError", 72)
    /\ last.call.built = <<2>>

MissingRefs(material, imgs) ==
    {n \in 1..Len(material.nodes) :
        \E j \in 1..Len(material.nodes[n].properties) :
            LET value == material.nodes[n].properties[j][2]
            IN  /\ value.tag = "TextureRef"
                /\ truncate_name(value.v \o material.texture_ext) \notin DOMAIN imgs}

(* C5: a material whose node property is a TextureRef to a texture that    *)
(* is not in the image registry does not import without an exception.      *)
C5_MissingTextureRaises ==
    (LastIs("import_material") /\ MissingRefs(last.arg, images) # {}) => Failed

PastLookupOrCreate(p) == procs[p].pc \in {"fill", "build", "return"} \/ procs[p].calls > 0

(* C6: when two calls deriving one key interleave, at most one image and   *)
(* at most one material is ever created for the key, and two callers past  *)
(* the lookup-or-create of one key hold the same datablock.                *)
C6_LookupOrCreateCritical ==
    /\ \A name \in DOMAIN newCalls.images : newCalls.images[name] <= 1
    /\ \A name \in DOMAIN newCalls.materials : newCalls.materials[name] <= 1
    /\ \A p, q \in Procs :
          (/\ PastLookupOrCreate(p) /\ PastLookupOrCreate(q)
           /\ procs[p].op = procs[q].op /\ procs[p].name = procs[q].name)
          => procs[p].data = procs[q].data

(* C7: import_material of an empty node list raises (the IndexError of     *)
(* line 80 when the host has the material's attributes) and wires nothing; *)
(* a list of one node without links, which the host accepts and which has  *)
(* a "BSDF" output, builds, and that node alone is wired to the output.    *)
C7_EmptyAndSingle ==
    LastIs("import_material") =>
        /\ Len(last.arg.nodes) = 0 =>
              /\ Failed
              /\ HostAccepts(last.arg) => /\ GraphConsistencyError(last.call.result)
                                           /\ last.call.result.line = 80
              /\ Links(Built) = {}
              /\ Len(Built.nodes) = 1
        /\ (/\ Len(last.arg.nodes) = 1
             /\ last.arg.nodes[1].socket_links = <<>>
             /\ HostAccepts(last.arg)
             /\ "BSDF" \in HostOutputs(last.arg.nodes[1].blender_id)) =>
              /\ last.call.result \in {NoExc, Raise("KeyError", 86)}
              /\ last.call.built = <<2>>
              /\ Links(Built) = {SurfaceLink(2)}

C7_Witness ==
    /\ LastIs("import_material")
    /\ last.arg.nodes = <<>>
    /\ last.call.result = Raise("IndexError", 80)
    /\ Built.nodes[1].type = OUTPUT

\* the list of one node, built and wired
C7_WitnessSingle ==
    /\ LastIs("import_material") /\ ~Failed
    /\ last.arg.nodes = <<NodeShader>>
    /\ Links(Built) = {SurfaceLink(2)}

(* C8: a call of import_texture whose key names a registered image leaves  *)
(* the image registry as it was, packs nothing and creates nothing,        *)
(* whatever the dimensions and bytes of its descriptor.                    *)
C8_HitLeavesImage ==
    [][(LastIs("import_texture")' /\ last'.call.name \in DOMAIN images) =>
         /\ images' = images
         /\ packCalls' = packCalls
         /\ newCalls' = newCalls
         /\ last'.call.hit
    ]_vars

\* the descriptor of the last call differs from the stored image
C8_Witness ==
    /\ LastIs("import_texture") /\ last.call.hit
    /\ images[last.call.name].width # last.arg.width
    /\ images[last.call.name].packed # last.arg.bytes

(* C9, as claimed: after a failed import_material the container does not   *)
(* hold a graph with only part of the descriptor's nodes or without the    *)
(* output wiring.                                                          *)
C9_NoHalfBuiltGraph ==
    (LastIs("import_material") /\ Failed)
    => \/ last.call.name \notin DOMAIN materials
       \/ /\ Len(Built.nodes) = 1 + Len(last.arg.nodes)
          /\ SurfaceLink(Len(Built.nodes)) \in Links(Built)

(* C9, amended: a failed import_material stops at the failing statement    *)
(* and rolls nothing back.  The container stays registered and holds the   *)
(* output node and the descriptor's nodes created so far, the one being    *)
(* configured when the exception came included; it is wired to the output  *)
(* only when the failure came in colorspace tagging, and no colorspace is  *)
(* touched by a build that failed before tagging.  import_texture leaves   *)
(* every container as it is.                                               *)
C9_AbortKeepsPartialGraph ==
    [][/\ LastIs("import_texture")' => materials' = materials
       /\ (LastIs("import_material")' /\ Failed') =>
           LET r == last'.call.result
               d == last'.arg
               mat == materials'[last'.call.name]
               b == Len(last'.call.built)
               n == Len(mat.nodes) - 1
           IN  /\ last'.call.name \in DOMAIN materials'
               /\ mat.nodes[1].type = OUTPUT
               /\ n = b + (IF r.line \in {65, 69, 72, 73, 76} THEN 1 ELSE 0)
               /\ n <= Len(d.nodes)
               /\ \A i \in 1..n : mat.nodes[i + 1].type = d.nodes[i].blender_id
               /\ r.line = 56 => n = 0
               /\ r.line \in {80, 82, 86} => n = Len(d.nodes)
               /\ (\E l \in Links(mat) : l.to_node = 1) <=> r.line = 86
               /\ r.line # 86 => images' = images
    ]_vars

\* a build that failed at the second of two nodes: both are in the tree
C9_Witness ==
    /\ LastIs("import_material")
    /\ last.call.result = Raise("IndexError", 72)
    /\ Len(last.arg.nodes) = 2
    /\ Len(Built.nodes) = 3
    /\ Links(Built) = {}

SpaceKey(material, i) ==
    truncate_name(material.texture_color_spaces[i][1] \o material.texture_ext)

MissingSpaces(material, imgs) ==
    {i \in 1..Len(material.texture_color_spaces) : SpaceKey(material, i) \notin DOMAIN imgs}

Wired(mat, material) ==
    /\ Len(mat.nodes) = 1 + Len(material.nodes)
    /\ SurfaceLink(Len(mat.nodes)) \in Links(mat)

(* C10: when a colorspace entry names a texture whose key is not in the    *)
(* image registry, import_material raises; it reaches the entry only with  *)
(* the graph built and wired, raises the KeyError of line 86 there, and    *)
(* sets no colorspace for that entry or a later one.  No call changes a    *)
(* colorspace before the graph is built and wired.                         *)
C10_MissingColorspaceImage ==
    [][LastIs("import_material")' =>
         LET d == last'.arg
             r == last'.call.result
             mat == materials'[last'.call.name]
             missing == MissingSpaces(d, images)
             first == CHOOSE i \in missing : \A j \in missing : i <= j
         IN  /\ images' # images => Wired(mat, d)
             /\ missing # {} =>
                   /\ Failed'
                   /\ r.line = 86 <=> Wired(mat, d)
                   /\ r.line = 86 => MissingReferenceError(r)
                   /\ (/\ HostAccepts(d) /\ WellOrdered(d.nodes) /\ Len(d.nodes) > 0
                        /\ "BSDF" \in HostOutputs(d.nodes[Len(d.nodes)].blender_id))
                       => r.line = 86
                   /\ \A j \in first..Len(d.texture_color_spaces) :
                         (/\ SpaceKey(d, j) \in DOMAIN images
                          /\ \A i \in 1..(first - 1) : SpaceKey(d, i) # SpaceKey(d, j))
                         => images'[SpaceKey(d, j)] = images[SpaceKey(d, j)]
    ]_vars

\* the first entry is missing, the second is registered and keeps the
\* colorspace it was created with
C10_Witness ==
    /\ LastIs("import_material")
    /\ last.arg.texture_color_spaces = SpacesCA
    /\ last.call.result = Raise("KeyError", 86)
    /\ NameC \o PNG \notin DOMAIN images
    /\ NameA \o PNG \in DOMAIN images
    /\ images[NameA \o PNG].colorspace = "sRGB"
    /\ Wired(Built, last.arg)

\* the renaming the specification gives, written out
Renamed(socket) ==
    CASE socket = "Specular" -> "Specular IOR Level"
      [] socket = "Emission" -> "Emission Color"
      [] OTHER -> socket

\* the socket names of the host and of the descriptors
SocketNames ==
    UNION {HostInputs(t) \cup HostOutputs(t) : t \in {PRINCIPLED, TEX_IMAGE, OUTPUT}}
    \cup {"Specular", "Emission", "Color", "Alpha", "Normal"}

(* C11: resolve_input_socket turns "Specular" into "Specular IOR Level"    *)
(* and "Emission" into "Emission Color" and hands every other name back;   *)
(* after import_material no node holds a default and no link ends on a     *)
(* socket called "Specular" or "Emission", and every node that was built   *)
(* holds its descriptor's defaults and incoming links on the renamed       *)
(* sockets.                                                                *)
C11_SocketsRenamed ==
    /\ \A s \in SocketNames : resolve_input_socket(s) = Renamed(s)
    /\ LastIs("import_material") =>
          LET d == last.arg
              built == last.call.built
          IN  /\ \A n \in 1..Len(Built.nodes) :
                    DOMAIN Built.nodes[n].defaults \cap NODE_INPUT_SOCKET_MAP_KEYS = {}
              /\ \A l \in Links(Built) : l.to_socket \notin NODE_INPUT_SOCKET_MAP_KEYS
              /\ \A i \in 1..Len(built) :
                    LET node == d.nodes[i]
                        data == Built.nodes[built[i]]
                    IN  /\ DOMAIN data.defaults =
                              {Renamed(node.socket_values[j][1]) :
                                   j \in 1..Len(node.socket_values)}
                        /\ \A j \in 1..Len(node.socket_values) :
                              data.defaults[Renamed(node.socket_values[j][1])]
                                  = node.socket_values[j][2]
                        /\ \A j \in 1..Len(node.socket_links) :
                              [from_node |-> built[node.socket_links[j][2].node_index + 1],
                               from_socket |-> node.socket_links[j][2].socket,
                               to_node |-> built[i],
                               to_socket |-> Renamed(node.socket_links[j][1])]
                                  \in Links(Built)

\* a link given under "Emission" ends on "Emission Color"
C11_Witness ==
    /\ LastIs("import_material") /\ ~Failed
    /\ last.arg.nodes = Chain
    /\ \E l \in Links(Built) : l.to_node = 3 /\ l.to_socket = "Emission Color"
    /\ \A l \in Links(Built) : l.to_socket # "Emission"

\* a default given under "Specular" sits on "Specular IOR Level"
C11_WitnessDefault ==
    /\ LastIs("import_material") /\ ~Failed
    /\ last.arg.nodes = <<NodeShader>>
    /\ Built.nodes[2].defaults["Specular IOR Level"] = Scalar("0.5")
    /\ "Specular" \notin DOMAIN Built.nodes[2].defaults

\* the links a descriptor asks for, between the positions its nodes take
\* in a tree that holds the output node first
DescriptorLinks(material) ==
    UNION {{[from_node |-> material.nodes[i].socket_links[j][2].node_index + 2,
             from_socket |-> material.nodes[i].socket_links[j][2].socket,
             to_node |-> i + 1,
             to_socket |-> Renamed(material.nodes[i].socket_links[j][1])] :
                j \in 1..Len(material.nodes[i].socket_links)} :
           i \in 1..Len(material.nodes)}

(* C12: whatever the container of the key held before (nothing, the graph  *)
(* of another descriptor, the remains of a build that raised), an          *)
(* import_material that returns normally leaves in it the nodes and links  *)
(* that the same descriptor builds in a container just created: the output *)
(* node, one node per descriptor node in order, the descriptor's links and *)
(* the output wiring, and nothing else.                                    *)
C12_RebuildFromScratch ==
    [][(LastIs("import_material")' /\ ~Failed') =>
         LET d == last'.arg
             mat == materials'[last'.call.name]
             fresh == BuildMaterial(images, NewMaterial, d).mat
             n == Len(d.nodes)
         IN  /\ mat.nodes = fresh.nodes
             /\ mat.links = fresh.links
             /\ Len(mat.nodes) = n + 1
             /\ {i \in 1..Len(mat.nodes) : mat.nodes[i].type = OUTPUT} = {1}
             /\ \A i \in 1..n : /\ mat.nodes[i + 1].type = d.nodes[i].blender_id
                                /\ mat.nodes[i + 1].location = d.nodes[i].position
             /\ Links(mat) = DescriptorLinks(d) \cup {SurfaceLink(n + 1)}
             /\ Len(mat.links) = Cardinality(Links(mat))
    ]_vars

\* a one-node graph built in a container that a build which raised had left
\* without its output wiring
C12_Witness ==
    /\ LastIs("import_material") /\ ~Failed
    /\ last.call.hit /\ last.call.before = "partial"
    /\ last.arg.nodes = <<NodeShader>>
    /\ Len(Built.nodes) = 2
    /\ Links(Built) = {SurfaceLink(2)}

\* a one-node graph built in the container that held a wired graph
C12_WitnessWired ==
    /\ LastIs("import_material") /\ ~Failed
    /\ last.call.before = "wired" /\ ~last.call.again
    /\ last.arg.nodes = <<NodeShader>>
    /\ Len(Built.nodes) = 2

\* what a value of a descriptor is to be stored as, given the registry
Stored(imgs, value, texture_ext) ==
    IF value.tag # "TextureRef" THEN value
    ELSE IF truncate_name(value.v \o texture_ext) \in DOMAIN imgs
    THEN IdValue(truncate_name(value.v \o texture_ext))
    ELSE NoneValue

(* C13: resolving the values of a descriptor leaves the image registry as  *)
(* it is: import_material adds no image and removes none, creates and      *)
(* packs nothing, changes no field of an image other than the colorspace   *)
(* of the tagging step, and changes nothing at all when the descriptor has *)
(* no colorspace entries.  A TextureRef property of a built node is stored *)
(* as the image registered under its key, an image that import_texture     *)
(* created and packed once, and as None when the key is not registered;    *)
(* a value that is not a TextureRef is stored as it is.                    *)
C13_ResolveReadsOnly ==
    [][LastIs("import_material")' =>
         LET d == last'.arg
             mat == materials'[last'.call.name]
             built == last'.call.built
         IN  /\ DOMAIN images' = DOMAIN images
             /\ packCalls' = packCalls
             /\ newCalls'.images = newCalls.images
             /\ \A k \in DOMAIN images :
                   [images'[k] EXCEPT !.colorspace = images[k].colorspace] = images[k]
             /\ d.texture_color_spaces = <<>> => images' = images
             /\ last'.call.result.line # 56 =>
                   \A j \in 1..Len(d.properties) :
                       mat.attrs[d.properties[j][1]]
                           = Stored(images, d.properties[j][2], d.texture_ext)
             /\ \A i \in 1..Len(built) :
                   LET node == d.nodes[i]
                       data == mat.nodes[built[i]]
                   IN  /\ \A j \in 1..Len(node.properties) :
                             LET value == node.properties[j][2]
                                 key == truncate_name(value.v \o d.texture_ext)
                             IN  /\ data.attrs[node.properties[j][1]]
                                       = Stored(images, value, d.texture_ext)
                                 /\ (value.tag = "TextureRef" /\ key \in DOMAIN images) =>
                                       /\ data.attrs[node.properties[j][1]].v \in DOMAIN images'
                                       /\ images'[key].source = "FILE"
                                       /\ packCalls'[key] = 1
                                       /\ newCalls'.images[key] = 1
                       /\ \A j \in 1..Len(node.socket_values) :
                             data.defaults[Renamed(node.socket_values[j][1])]
                                 = Stored(images, node.socket_values[j][2], d.texture_ext)
    ]_vars

\* a texture node holds the image that import_texture registered under the
\* key of its reference, and the material a scalar as given
C13_Witness ==
    /\ LastIs("import_material") /\ ~Failed
    /\ last.arg.nodes = Chain
    /\ last.arg.texture_color_spaces = <<>>
    /\ Built.nodes[2].attrs["image"] = IdValue(NameA \o PNG)
    /\ images[NameA \o PNG].packed # <<>>
    /\ Built.attrs["blend_method"] = Scalar("OPAQUE")

\* a reference whose key is not registered is stored as None, and no image
\* appears for it
C13_WitnessMiss ==
    /\ LastIs("import_material") /\ ~Failed
    /\ last.arg.nodes = Chain
    /\ Built.nodes[2].attrs["image"] = NoneValue
    /\ NameA \o PNG \notin DOMAIN images

\* the positions in mat.links of the links that end on the output node
IntoOutput(mat) == {i \in 1..Len(mat.links) : mat.links[i].to_node = 1}

(* C14: after an import_material that returned normally the output node    *)
(* has one incoming link, on "Surface", from the "BSDF" output of the node *)
(* built for the last entry of the descriptor's node list; after any       *)
(* import_material, a link into the output node is there only when every   *)
(* node of the list was built.                                             *)
C14_SurfaceFromLastNode ==
    LastIs("import_material") =>
        LET d == last.arg
            n == Len(d.nodes)
            built == last.call.built
        IN  /\ IntoOutput(Built) # {} =>
                  /\ Len(built) = n
                  /\ Len(Built.nodes) = n + 1
                  /\ last.call.result \in {NoExc, Raise("KeyError", 86)}
            /\ ~Failed =>
                  /\ n > 0
                  /\ built = [i \in 1..n |-> i + 1]
                  /\ Cardinality(IntoOutput(Built)) = 1
                  /\ \A i \in IntoOutput(Built) : Built.links[i] = SurfaceLink(built[n])
                  /\ Built.nodes[1].type = OUTPUT
                  /\ Built.nodes[built[n]].type = d.nodes[n].blender_id
                  /\ "BSDF" \in HostOutputs(d.nodes[n].blender_id)
                  /\ \A l \in Links(Built) : l.to_socket = "Surface" <=> l.to_node = 1

\* of two shader nodes the second feeds the output, the first does not
C14_Witness ==
    /\ LastIs("import_material") /\ ~Failed
    /\ last.arg.nodes = <<NodeShader, NodeShader>>
    /\ SurfaceLink(3) \in Links(Built)
    /\ SurfaceLink(2) \notin Links(Built)

(* C15: over any sequence of import_material calls every key has at most   *)
(* one container, created by one new() call and registered under the key   *)
(* itself; a call that finds no container of its key creates one tagged    *)
(* with the untruncated name of its descriptor, a call that finds one      *)
(* leaves the tag as it is, also when its descriptor has another name, and *)
(* no call touches the container of another key.                           *)
C15_OneContainerPathTag ==
    [][LastIs("import_material")' =>
         LET key == last'.call.name
             d == last'.arg
         IN  /\ key = truncate_name(d.name)
             /\ DOMAIN materials' = DOMAIN materials \cup {key}
             /\ \A k \in DOMAIN materials' :
                   /\ NamesFor(materials', k) = {k}
                   /\ newCalls'.materials[k] = 1
                   /\ k # key => materials'[k] = materials[k]
                   /\ truncate_name(materials'[k].path_id) = k
             /\ last'.call.hit <=> key \in DOMAIN materials
             /\ materials'[key].path_id =
                   IF key \in DOMAIN materials THEN materials[key].path_id ELSE d.name
    ]_vars

\* a descriptor of another name found the container of its key: the tag is
\* the name of the descriptor that created it; a second key has its own
C15_Witness ==
    /\ LastIs("import_material") /\ last.call.hit
    /\ last.arg.name = NameBM
    /\ Built.path_id = NameM
    /\ DOMAIN materials = {NameM, NameK}
    /\ materials[NameK].path_id = NameK

\* the nodes one link away from a node of S, added to S
Step(mat, S) == S \cup {l.to_node : l \in {m \in Links(mat) : m.from_node \in S}}

RECURSIVE After(_, _, _)
After(mat, S, k) == IF k = 0 THEN S ELSE After(mat, Step(mat, S), k - 1)

\* the nodes that a path of one or more links leads to from node n
Downstream(mat, n) ==
    After(mat, {l.to_node : l \in {m \in Links(mat) : m.from_node = n}}, Len(mat.nodes))

Acyclic(mat) == \A n \in 1..Len(mat.nodes) : n \notin Downstream(mat, n)

Range(seq) == {seq[i] : i \in 1..Len(seq)}

(* C16: in every state, in every container, each link runs between two     *)
(* nodes of the tree and, unless it is the wiring into the output node,    *)
(* from a node created earlier to one created later: no link joins a node  *)
(* to itself and no path of links returns to its start.  After an          *)
(* import_material, failed or not, each link starts at a node of           *)
(* built_nodes and ends at a node of built_nodes, at the output node, or   *)
(* at the node that was being built when the call raised.                  *)
C16_LinksRunForward ==
    /\ \A k \in DOMAIN materials :
          LET mat == materials[k]
          IN  /\ \A l \in Links(mat) :
                    /\ l.from_node \in 2..Len(mat.nodes)
                    /\ l.to_node \in 1..Len(mat.nodes)
                    /\ l.from_node # l.to_node
                    /\ l.to_node # 1 => l.from_node < l.to_node
              /\ Acyclic(mat)
    /\ LastIs("import_material") =>
          \A l \in Links(Built) :
              /\ l.from_node \in Range(last.call.built)
              /\ \/ l.to_node \in Range(last.call.built) \cup {1}
                 \/ Failed /\ l.to_node = Len(last.call.built) + 2

\* a node whose link names its own position: rejected at line 72 with the
\* node in the tree and no link made
C16_Witness ==
    /\ LastIs("import_material")
    /\ last.arg.nodes = <<NodeTex, NodeLinked(1)>>
    /\ last.call.result = Raise("IndexError", 72)
    /\ Len(Built.nodes) = 3
    /\ Links(Built) = {}

\* a build that raised after its links were made: they run forward
C16_WitnessLinks ==
    /\ LastIs("import_material") /\ Failed
    /\ last.arg.nodes = Chain
    /\ \E l \in Links(Built) : l.from_node = 2 /\ l.to_node = 3

\* an execute that has run to its end
Executed == mdl.pc \in {"done", "idle"} /\ mdl.props # <<>>

OSErrors == {"OSError", "FileNotFoundError"}

(* C17, as claimed: execute returns {"CANCELLED"} with one error report    *)
(* when the Importer constructor or import_mdl raised an OSError, and      *)
(* {"FINISHED"} in every other case in which execute came to construct   *)
(* the Importer.                                                           *)
C17_FinishedOtherwise ==
    (Executed /\ mdl.constructed = 1) =>
        IF mdl.construct_exc \in OSErrors \/ mdl.import_exc \in OSErrors
        THEN mdl.returned = "CANCELLED" /\ Len(mdl.reports) = 1
        ELSE mdl.returned = "FINISHED"

(* C17, amended: when the Importer constructor or import_mdl raises an     *)
(* OSError (or a subclass), execute makes one ERROR report and returns     *)
(* {"CANCELLED"}; when the file system lookup, the constructor and         *)
(* import_mdl all return, it reports nothing and returns {"FINISHED"};     *)
(* when one of them raises anything else (the lookup: anything at all),    *)
(* execute returns nothing and reports nothing, and the exception leaves   *)
(* it.  import_mdl is called at most once, with the operator's             *)
(* properties, and only after the constructor returned.                    *)
C17_CancelledOnOSError ==
    /\ Len(mdl.import_calls) <= 1
    /\ mdl.constructed <= 1
    /\ mdl.import_calls # <<>> =>
          /\ mdl.construct_exc = "None" /\ mdl.constructed = 1
          /\ mdl.import_calls[1] = mdl.props
    /\ mdl.construct_exc # "None" \/ mdl.fs_exc # "None" => mdl.import_calls = <<>>
    /\ Len(mdl.reports) <= 1
    /\ Executed =>
          /\ mdl.construct_exc \in OSErrors =>
                /\ mdl.returned = "CANCELLED" /\ mdl.raised = "None"
                /\ mdl.reports = << [level |-> "ERROR", err |-> mdl.construct_exc,
                                     message |-> "could not open file system"] >>
          /\ mdl.import_exc \in OSErrors =>
                /\ mdl.returned = "CANCELLED" /\ mdl.raised = "None"
                /\ mdl.reports = << [level |-> "ERROR", err |-> mdl.import_exc,
                                     message |-> "could not import mdl"] >>
          /\ (mdl.fs_exc = "None" /\ mdl.construct_exc = "None" /\ mdl.import_exc = "None") =>
                /\ mdl.returned = "FINISHED" /\ mdl.raised = "None"
                /\ mdl.reports = <<>>
                /\ Len(mdl.import_calls) = 1
          /\ \A e \in {mdl.fs_exc} \cup ({mdl.construct_exc, mdl.import_exc} \ OSErrors) :
                e # "None" => /\ mdl.returned = "none" /\ mdl.raised = e
                              /\ mdl.reports = <<>>
          /\ mdl.returned = "CANCELLED" <=>
                (mdl.construct_exc \in OSErrors \/ mdl.import_exc \in OSErrors)

\* the constructor raised a subclass of OSError: one report, CANCELLED, and
\* import_mdl was not called
C17_Witness ==
    /\ Executed
    /\ mdl.construct_exc = "FileNotFoundError"
    /\ mdl.returned = "CANCELLED"
    /\ Len(mdl.reports) = 1
    /\ mdl.import_calls = <<>>

\* import_mdl raised an exception that is no OSError: nothing is returned
C17_WitnessUncaught ==
    /\ Executed
    /\ mdl.import_exc = "RuntimeError"
    /\ mdl.raised = "RuntimeError"
    /\ mdl.returned = "none"
    /\ mdl.reports = <<>>

=============================================================================
